---- MODULE Spec2Model ----
(***************************************************************************)
(* Model of src/clean_inventory_system.py: a module-level dict stock_data  *)
(* (item name -> quantity, in insertion order), the operations add_item,   *)
(* remove_item, get_qty, check_low_items, print_data, load_data and        *)
(* save_data, and the JSON file the last two read and write.               *)
(*                                                                         *)
(* Python values are pairs <<type, payload>>.  A str payload is a TLA+     *)
(* string when the value is an item name and a sequence of one-character   *)
(* strings when it is a value read from the file (int() parses it).  A     *)
(* float payload is the value in tenths.                                   *)
(*                                                                         *)
(* The log records and the optional logs list of add_item are left out:    *)
(* no operation reads them back.  A file is held as the document           *)
(* json.load would return for it.                                          *)
(***************************************************************************)
EXTENDS Integers, Sequences, FiniteSets, TLC

\* ---------------------------------------------------------------- bounds
MaxQty == 2          \* largest quantity an add may reach

\* ---------------------------------------------------------------- inputs
ItemNames == {"apple", "banana"}
Paths == {"inventory.json"}

PyStr(s) == <<"str", s>>
PyInt(n) == <<"int", n>>
PyFloat(tenths) == <<"float", tenths>>
PyBool(b) == <<"bool", b>>
PyNone == <<"NoneType", 0>>

ItemArgs == {PyStr(n) : n \in ItemNames} \cup {PyStr(""), PyInt(7)}
QtyArgs == {PyInt(n) : n \in -1..MaxQty} \cup {PyFloat(15)}
ThresholdArgs == {PyInt(n) : n \in -1..(MaxQty + 1)} \cup {PyFloat(15)}

\* values a JSON document written by another program may hold
JsonValues ==
    { PyInt(-1), PyFloat(15), PyStr(<<"x">>) }

\* ------------------------------------------------------- python builtins
IsStr(x) == x[1] = "str"
\* bool is a subclass of int
IsInt(x) == x[1] \in {"int", "bool"}

DigitChars == <<"0", "1", "2", "3", "4", "5", "6", "7", "8", "9">>
IsDigit(c) == \E d \in 1..10 : DigitChars[d] = c
DigitVal(c) == (CHOOSE d \in 1..10 : DigitChars[d] = c) - 1

RECURSIVE DigitsVal(_)
DigitsVal(cs) ==
    IF cs = <<>> THEN 0
    ELSE 10 * DigitsVal(SubSeq(cs, 1, Len(cs) - 1)) + DigitVal(cs[Len(cs)])

AllDigits(cs) == cs # <<>> /\ \A i \in DOMAIN cs : IsDigit(cs[i])

\* int(v): [exc, val]
int_(v) ==
    CASE v[1] = "int" -> [exc |-> "none", val |-> v[2]]
      [] v[1] = "bool" -> [exc |-> "none", val |-> v[2]]
      [] v[1] = "float" ->
            [exc |-> "none",
             val |-> IF v[2] >= 0 THEN v[2] \div 10 ELSE -((-v[2]) \div 10)]
      [] v[1] = "str" ->
            LET cs == v[2]
                signed == cs # <<>> /\ cs[1] \in {"+", "-"}
                body == IF signed THEN Tail(cs) ELSE cs
            IN  IF AllDigits(body)
                THEN [exc |-> "none",
                      val |-> IF signed /\ cs[1] = "-"
                              THEN -DigitsVal(body) ELSE DigitsVal(body)]
                ELSE [exc |-> "ValueError", val |-> 0]
      [] OTHER -> [exc |-> "TypeError", val |-> 0]

\* ------------------------------------------------------------ dict (ordered)
\* a dict is a sequence of <<key, value>> with distinct keys, in insertion order
Keys(d) == {d[i][1] : i \in DOMAIN d}
Has(d, k) == \E i \in DOMAIN d : d[i][1] = k
Get(d, k) == d[CHOOSE i \in DOMAIN d : d[i][1] = k][2]
DictGet(d, k, default) == IF Has(d, k) THEN Get(d, k) ELSE default
SetItem(d, k, v) ==
    IF Has(d, k)
    THEN [i \in DOMAIN d |-> IF d[i][1] = k THEN <<k, v>> ELSE d[i]]
    ELSE Append(d, <<k, v>>)
\* a slip: the whole dict is emptied instead of one key deleted
DelItem_clear(d, k) == <<>>
DelItem(d, k) == SelectSeq(d, LAMBDA e : e[1] # k)
\* the mapping a dict denotes, order forgotten
AsMap(d) == [k \in Keys(d) |-> Get(d, k)]

\* -------------------------------------------------------------- operations
Outcome(sd, exc, ret) == [sd |-> sd, exc |-> exc, ret |-> ret]

\* a slip: the quantity is set, not added to what is stored
add_item_overwrite(sd, item, qty) ==
    IF ~IsStr(item) \/ item[2] = "" THEN Outcome(sd, "TypeError", <<>>)
    ELSE IF ~IsInt(qty) THEN Outcome(sd, "TypeError", <<>>)
    ELSE IF qty[2] < 0 THEN Outcome(sd, "ValueError", <<>>)
    ELSE Outcome(SetItem(sd, item[2], qty[2]), "none", <<>>)

add_item(sd, item, qty) ==
    IF ~IsStr(item) \/ item[2] = "" THEN Outcome(sd, "TypeError", <<>>)
    ELSE IF ~IsInt(qty) THEN Outcome(sd, "TypeError", <<>>)
    ELSE IF qty[2] < 0 THEN Outcome(sd, "ValueError", <<>>)
    ELSE Outcome(SetItem(sd, item[2], DictGet(sd, item[2], 0) + qty[2]),
                 "none", <<>>)

\* a slip: > for >=, so that removing exactly the stored quantity keeps a 0
remove_item_strict(sd, item, qty) ==
    IF ~IsStr(item) \/ item[2] = "" THEN Outcome(sd, "TypeError", <<>>)
    ELSE IF ~IsInt(qty) THEN Outcome(sd, "TypeError", <<>>)
    ELSE IF qty[2] <= 0 THEN Outcome(sd, "ValueError", <<>>)
    ELSE IF ~Has(sd, item[2]) THEN Outcome(sd, "KeyError", <<>>)
    ELSE LET current == Get(sd, item[2])
         IN  IF qty[2] > current
             THEN Outcome(DelItem(sd, item[2]), "none", <<>>)
             ELSE Outcome(SetItem(sd, item[2], current - qty[2]), "none", <<>>)

\* a slip: the entry is deleted whatever the quantity removed
remove_item_delete(sd, item, qty) ==
    IF ~IsStr(item) \/ item[2] = "" THEN Outcome(sd, "TypeError", <<>>)
    ELSE IF ~IsInt(qty) THEN Outcome(sd, "TypeError", <<>>)
    ELSE IF qty[2] <= 0 THEN Outcome(sd, "ValueError", <<>>)
    ELSE IF ~Has(sd, item[2]) THEN Outcome(sd, "KeyError", <<>>)
    ELSE Outcome(DelItem(sd, item[2]), "none", <<>>)

\* a slip: the presence check made before the checks of qty
remove_item_presence_first(sd, item, qty) ==
    IF ~IsStr(item) \/ item[2] = "" THEN Outcome(sd, "TypeError", <<>>)
    ELSE IF ~Has(sd, item[2]) THEN Outcome(sd, "KeyError", <<>>)
    ELSE IF ~IsInt(qty) THEN Outcome(sd, "TypeError", <<>>)
    ELSE IF qty[2] <= 0 THEN Outcome(sd, "ValueError", <<>>)
    ELSE LET current == Get(sd, item[2])
         IN  IF qty[2] >= current
             THEN Outcome(DelItem(sd, item[2]), "none", <<>>)
             ELSE Outcome(SetItem(sd, item[2], current - qty[2]), "none", <<>>)

remove_item(sd, item, qty) ==
    IF ~IsStr(item) \/ item[2] = "" THEN Outcome(sd, "TypeError", <<>>)
    ELSE IF ~IsInt(qty) THEN Outcome(sd, "TypeError", <<>>)
    ELSE IF qty[2] <= 0 THEN Outcome(sd, "ValueError", <<>>)
    ELSE IF ~Has(sd, item[2]) THEN Outcome(sd, "KeyError", <<>>)
    ELSE LET current == Get(sd, item[2])
         IN  IF qty[2] >= current
             THEN Outcome(DelItem(sd, item[2]), "none", <<>>)
             ELSE Outcome(SetItem(sd, item[2], current - qty[2]), "none", <<>>)

\* the argument is used as a dict key without any check
get_qty(sd, item) ==
    IF ~(IsStr(item) /\ Has(sd, item[2])) THEN Outcome(sd, "KeyError", <<>>)
    ELSE Outcome(sd, "none", Get(sd, item[2]))

RECURSIVE LowNames(_, _)
LowNames(d, t) ==
    IF d = <<>> THEN <<>>
    ELSE (IF d[1][2] < t THEN <<d[1][1]>> ELSE <<>>) \o LowNames(Tail(d), t)

check_low_items(sd, threshold) ==
    IF ~IsInt(threshold) \/ threshold[2] < 0
    THEN Outcome(sd, "ValueError", <<>>)
    ELSE Outcome(sd, "none", LowNames(sd, threshold[2]))

\* the lines of the report, one per entry, in iteration order
print_data(sd) == Outcome(sd, "none", sd)

\* ------------------------------------------------------------------- files
Absent == [kind |-> "absent", entries |-> <<>>]
Malformed == [kind |-> "malformed", entries |-> <<>>]
JsonArray == [kind |-> "array", entries |-> <<>>]
JsonObject(es) == [kind |-> "object", entries |-> es]

\* json.dump of a dict of str -> int
JsonDump(sd) == JsonObject([i \in DOMAIN sd |-> <<sd[i][1], PyInt(sd[i][2])>>])

\* {str(k): int(v) for k, v in data.items()}: the first failing int() aborts
RECURSIVE Coerce(_)
Coerce(es) ==
    IF es = <<>> THEN [exc |-> "none", sd |-> <<>>]
    ELSE LET c == int_(es[1][2])
         IN  IF c.exc # "none" THEN [exc |-> c.exc, sd |-> <<>>]
             ELSE LET rest == Coerce(Tail(es))
                  IN  IF rest.exc # "none" THEN rest
                      ELSE [exc |-> "none",
                            sd |-> <<(<<es[1][1], c.val>>)>> \o rest.sd]

\* the entries that precede the first value int() refuses
RECURSIVE CoercedPrefix(_)
CoercedPrefix(es) ==
    IF es = <<>> THEN <<>>
    ELSE LET c == int_(es[1][2])
         IN  IF c.exc # "none" THEN <<>>
             ELSE <<(<<es[1][1], c.val>>)>> \o CoercedPrefix(Tail(es))

\* a slip: stock_data filled entry by entry, so a failure leaves a part
load_data_partial(sd, f) ==
    CASE f.kind = "absent" -> Outcome(<<>>, "none", <<>>)
      [] f.kind = "malformed" -> Outcome(sd, "JSONDecodeError", <<>>)
      [] f.kind = "array" -> Outcome(sd, "ValueError", <<>>)
      [] OTHER ->
            LET c == Coerce(f.entries)
            IN  IF c.exc # "none"
                THEN Outcome(CoercedPrefix(f.entries), c.exc, <<>>)
                ELSE Outcome(c.sd, "none", <<>>)

RECURSIVE Update(_, _)
Update(d, es) ==
    IF es = <<>> THEN d ELSE Update(SetItem(d, es[1][1], es[1][2]), Tail(es))

\* a slip: the loaded entries merged into stock_data (dict.update)
load_data_merge(sd, f) ==
    CASE f.kind = "absent" -> Outcome(<<>>, "none", <<>>)
      [] f.kind = "malformed" -> Outcome(sd, "JSONDecodeError", <<>>)
      [] f.kind = "array" -> Outcome(sd, "ValueError", <<>>)
      [] OTHER ->
            LET c == Coerce(f.entries)
            IN  IF c.exc # "none" THEN Outcome(sd, c.exc, <<>>)
                ELSE Outcome(Update(sd, c.sd), "none", <<>>)

\* a slip: a missing file leaves stock_data as it is
load_data_keep(sd, f) ==
    CASE f.kind = "absent" -> Outcome(sd, "none", <<>>)
      [] f.kind = "malformed" -> Outcome(sd, "JSONDecodeError", <<>>)
      [] f.kind = "array" -> Outcome(sd, "ValueError", <<>>)
      [] OTHER ->
            LET c == Coerce(f.entries)
            IN  IF c.exc # "none" THEN Outcome(sd, c.exc, <<>>)
                ELSE Outcome(c.sd, "none", <<>>)

load_data(sd, f) ==
    CASE f.kind = "absent" -> Outcome(<<>>, "none", <<>>)
      [] f.kind = "malformed" -> Outcome(sd, "JSONDecodeError", <<>>)
      [] f.kind = "array" -> Outcome(sd, "ValueError", <<>>)
      [] OTHER ->
            LET c == Coerce(f.entries)
            IN  IF c.exc # "none" THEN Outcome(sd, c.exc, <<>>)
                ELSE Outcome(c.sd, "none", <<>>)

\* fault: "none", "open" (open() raises) or "write" (a write raises after
\* open(file, "w") has truncated the file)
save_data(sd, f, fault) ==
    CASE fault = "open" -> [file |-> f, exc |-> "OSError"]
      [] fault = "write" -> [file |-> Malformed, exc |-> "OSError"]
      [] OTHER -> [file |-> JsonDump(sd), exc |-> "none"]

\* ------------------------------------------------------------------- state
VARIABLES
    stock_data,   \* the module-level dict
    files,        \* path -> content of the file
    last,         \* the last call: operation, arguments, exception, result
    prev,         \* stock_data before the last call
    saved,        \* per path: the dict of the last successful save, if the
                  \* file has not been written since
    sumAdded,     \* per item: sum added since the item was last seen absent
    tracked       \* per item: no remove or load since it was seen absent

vars == <<stock_data, files, last, prev, saved, sumAdded, tracked>>

Call(op, item, qty, path, exc, ret) ==
    [op |-> op, item |-> item, qty |-> qty, path |-> path, exc |-> exc,
     ret |-> ret]

NoPath == ""
NoSave == [valid |-> FALSE, snap |-> <<>>]

Init ==
    /\ stock_data = <<>>
    /\ files = [p \in Paths |-> Absent]
    /\ last = Call("init", PyNone, PyNone, NoPath, "none", <<>>)
    /\ prev = <<>>
    /\ saved = [p \in Paths |-> NoSave]
    /\ sumAdded = [n \in ItemNames |-> 0]
    /\ tracked = [n \in ItemNames |-> TRUE]

\* ---- the calls, without the bookkeeping of sumAdded and tracked
AddCall(item, qty) ==
    LET r == add_item(stock_data, item, qty)
    IN  /\ r.exc = "none" => Get(r.sd, item[2]) <= MaxQty
        /\ stock_data' = r.sd
        /\ prev' = stock_data
        /\ last' = Call("add_item", item, qty, NoPath, r.exc, r.ret)
        /\ UNCHANGED <<files, saved>>

RemoveCall(item, qty) ==
    LET r == remove_item(stock_data, item, qty)
    IN  /\ stock_data' = r.sd
        /\ prev' = stock_data
        /\ last' = Call("remove_item", item, qty, NoPath, r.exc, r.ret)
        /\ UNCHANGED <<files, saved>>

LoadCall(p) ==
    LET r == load_data(stock_data, files[p])
    IN  /\ stock_data' = r.sd
        /\ prev' = stock_data
        /\ last' = Call("load_data", PyNone, PyNone, p, r.exc, <<>>)
        /\ UNCHANGED <<files, saved>>

\* ---- the operations
AddItem ==
    \E item \in ItemArgs, qty \in QtyArgs :
        AddCall(item, qty) /\ UNCHANGED <<sumAdded, tracked>>

RemoveItem ==
    \E item \in ItemArgs, qty \in QtyArgs :
        RemoveCall(item, qty) /\ UNCHANGED <<sumAdded, tracked>>

GetQty ==
    \E item \in ItemArgs :
        LET r == get_qty(stock_data, item)
        IN  /\ stock_data' = r.sd
            /\ prev' = stock_data
            /\ last' = Call("get_qty", item, PyNone, NoPath, r.exc, r.ret)
            /\ UNCHANGED <<files, saved, sumAdded, tracked>>

CheckLowItems ==
    \E threshold \in ThresholdArgs :
        LET r == check_low_items(stock_data, threshold)
        IN  /\ stock_data' = r.sd
            /\ prev' = stock_data
            /\ last' = Call("check_low_items", PyNone, threshold, NoPath, r.exc, r.ret)
            /\ UNCHANGED <<files, saved, sumAdded, tracked>>

PrintData ==
    LET r == print_data(stock_data)
    IN  /\ stock_data' = r.sd
        /\ prev' = stock_data
        /\ last' = Call("print_data", PyNone, PyNone, NoPath, r.exc, r.ret)
        /\ UNCHANGED <<files, saved, sumAdded, tracked>>

LoadData ==
    \E p \in Paths : LoadCall(p) /\ UNCHANGED <<sumAdded, tracked>>

SaveData ==
    \E p \in Paths, fault \in {"none", "open", "write"} :
        LET r == save_data(stock_data, files[p], fault)
        IN  /\ files' = [files EXCEPT ![p] = r.file]
            /\ saved' = [saved EXCEPT ![p] =
                            IF r.exc = "none"
                            THEN [valid |-> TRUE, snap |-> stock_data]
                            ELSE NoSave]
            /\ prev' = stock_data
            /\ last' = Call("save_data", PyNone, PyNone, p, r.exc, <<>>)
            /\ UNCHANGED <<stock_data, sumAdded, tracked>>

\* ------------------------------------------------------------- environment
RECURSIVE ObjectsOfLen(_)
ObjectsOfLen(n) ==
    IF n = 0 THEN {<<>>}
    ELSE {Append(es, <<k, v>>) :
            es \in ObjectsOfLen(n - 1), k \in ItemNames, v \in JsonValues}

DistinctKeys(es) == \A i, j \in DOMAIN es : es[i][1] = es[j][1] => i = j

\* the documents another program may leave at a path (a parsed object has
\* distinct keys: json.load keeps one value per key)
ForeignFiles ==
    {Absent, Malformed, JsonArray}
    \cup {JsonObject(es) :
            es \in {x \in UNION {ObjectsOfLen(n) : n \in 0..Cardinality(ItemNames)} :
                        DistinctKeys(x)}}

\* another program writes or deletes the file
ForeignWrite ==
    \E p \in Paths, f \in ForeignFiles :
        /\ f # files[p]
        /\ files' = [files EXCEPT ![p] = f]
        /\ saved' = [saved EXCEPT ![p] = NoSave]
        /\ prev' = stock_data
        /\ last' = Call("foreign_write", PyNone, PyNone, p, "none", <<>>)
        /\ UNCHANGED <<stock_data, sumAdded, tracked>>

Next ==
    \/ AddItem
    \/ RemoveItem
    \/ GetQty
    \/ CheckLowItems
    \/ PrintData
    \/ LoadData
    \/ SaveData
    \/ ForeignWrite

Spec == Init /\ [][Next]_vars

\* ------------------------------------------------- the store, adds counted
\* The same calls with the sums of the adds kept: a remove or a load ends
\* every period of pure adds, and a new one starts for the items that are
\* absent afterwards.
Restart(sd) ==
    /\ sumAdded' = [n \in ItemNames |-> 0]
    /\ tracked' = [n \in ItemNames |-> ~Has(sd, n)]

AddItemCounted ==
    \E item \in ItemArgs, qty \in QtyArgs :
        /\ AddCall(item, qty)
        /\ IF add_item(stock_data, item, qty).exc = "none" /\ tracked[item[2]]
           THEN sumAdded' = [sumAdded EXCEPT ![item[2]] = @ + qty[2]]
           ELSE UNCHANGED sumAdded
        /\ UNCHANGED tracked

RemoveItemCounted ==
    \E item \in ItemArgs, qty \in QtyArgs :
        /\ RemoveCall(item, qty)
        /\ IF remove_item(stock_data, item, qty).exc = "none"
           THEN Restart(stock_data')
           ELSE UNCHANGED <<sumAdded, tracked>>

LoadDataCounted ==
    \E p \in Paths :
        /\ LoadCall(p)
        /\ IF load_data(stock_data, files[p]).exc = "none"
           THEN Restart(stock_data')
           ELSE UNCHANGED <<sumAdded, tracked>>

NextStore ==
    \/ AddItemCounted
    \/ RemoveItemCounted
    \/ LoadDataCounted
    \/ GetQty

SpecStore == Init /\ [][NextStore]_vars

\* ================================================================== claims
InvalidArgument == {"TypeError", "ValueError"}
NotFound == {"KeyError"}
ParseError == {"JSONDecodeError", "ValueError", "TypeError"}

\* the arguments the specification accepts
ValidItem(x) == IsStr(x) /\ x[2] # ""
IntArg(x) == x[1] = "int"
Ok(op) == last.op = op /\ last.exc = "none"

\* C1: in every reachable state every stored quantity is >= 0 and no item is
\* stored with quantity 0 (an item whose quantity is 0 is absent).
C1_QuantitiesPositive ==
    \A i \in DOMAIN stock_data : stock_data[i][2] > 0

\* C2: after successful adds to an item that was absent, with no remove or
\* load in between, get_qty(item) returns the sum of the quantities added
\* for that item, whatever was added to other items.
C2_AddsSumUp ==
    \A n \in ItemNames :
        /\ (tracked[n] /\ Ok("add_item") /\ last.item[2] = n)
              => get_qty(stock_data, PyStr(n)) = Outcome(stock_data, "none", sumAdded[n])
        /\ (tracked[n] /\ Has(stock_data, n))
              => get_qty(stock_data, PyStr(n)).ret = sumAdded[n]
        /\ (tracked[n] /\ ~Has(stock_data, n)) => sumAdded[n] = 0

\* two adds to apple, the second of 1 onto a stored 1, with banana added too
C2_Witness ==
    /\ tracked["apple"] /\ tracked["banana"]
    /\ Ok("add_item") /\ last.item[2] = "apple" /\ last.qty[2] = 1
    /\ Has(prev, "apple") /\ Get(prev, "apple") = 1
    /\ Has(stock_data, "banana") /\ sumAdded["banana"] = 1
    /\ sumAdded["apple"] = 2

\* C3: remove(item, qty) of a present item with qty > 0 and qty >= the stored
\* quantity raises nothing and deletes the entry; get_qty(item) then signals
\* NotFound; no negative quantity is stored for the item.
C3_RemoveAllDeletes ==
    (/\ last.op = "remove_item"
     /\ ValidItem(last.item) /\ IntArg(last.qty) /\ last.qty[2] > 0
     /\ Has(prev, last.item[2])
     /\ last.qty[2] >= Get(prev, last.item[2]))
    => /\ last.exc = "none"
       /\ ~Has(stock_data, last.item[2])
       /\ get_qty(stock_data, last.item).exc \in NotFound
       /\ \A i \in DOMAIN stock_data :
            stock_data[i][1] = last.item[2] => stock_data[i][2] >= 0

\* more than the stored quantity removed, another item being stored
C3_Witness ==
    /\ Ok("remove_item") /\ last.item[2] = "apple"
    /\ Has(prev, "apple") /\ Get(prev, "apple") > 0
    /\ last.qty[2] > Get(prev, "apple")
    /\ ~Has(stock_data, "apple")
    /\ Has(stock_data, "banana")

\* C4: remove(item, qty) of a present item with 0 < qty < the stored quantity c
\* keeps the entry, and get_qty(item) then returns c - qty, which is > 0.
C4_RemovePartLeavesRest ==
    (/\ last.op = "remove_item"
     /\ ValidItem(last.item) /\ IntArg(last.qty) /\ last.qty[2] > 0
     /\ Has(prev, last.item[2])
     /\ last.qty[2] < Get(prev, last.item[2]))
    => /\ last.exc = "none"
       /\ get_qty(stock_data, last.item)
            = Outcome(stock_data, "none", Get(prev, last.item[2]) - last.qty[2])
       /\ Get(stock_data, last.item[2]) > 0

C4_Witness ==
    /\ Ok("remove_item") /\ last.item[2] = "apple" /\ last.qty[2] = 1
    /\ Has(prev, "apple") /\ Get(prev, "apple") = MaxQty
    /\ Has(stock_data, "apple") /\ Get(stock_data, "apple") = MaxQty - 1

\* C5: in every reachable state and for every threshold >= 0,
\* check_low_items(threshold) returns exactly the items whose quantity is
\* < threshold, each once and in insertion order, and check_low_items(0)
\* returns the empty sequence.
C5_LowItemsExact ==
    \A t \in 0..(MaxQty + 1) :
        LET r == check_low_items(stock_data, PyInt(t))
        IN  /\ r.exc = "none"
            /\ {r.ret[i] : i \in DOMAIN r.ret}
                 = {k \in Keys(stock_data) : Get(stock_data, k) < t}
            /\ \A i, j \in DOMAIN r.ret : r.ret[i] = r.ret[j] => i = j
            /\ \A i, j \in DOMAIN r.ret :
                 i < j =>
                   \E a, b \in DOMAIN stock_data :
                     a < b /\ stock_data[a][1] = r.ret[i] /\ stock_data[b][1] = r.ret[j]
            /\ (t = 0 => r.ret = <<>>)

\* C6: an add, remove or check_low_items that signals InvalidArgument leaves
\* the mapping as it was; invalid arguments are signalled as InvalidArgument,
\* and remove checks its arguments before the presence of the item.
InvalidCall ==
    \/ /\ last.op = "add_item"
       /\ (~ValidItem(last.item) \/ ~IsInt(last.qty) \/ last.qty[2] < 0)
    \/ /\ last.op = "remove_item"
       /\ (~ValidItem(last.item) \/ ~IsInt(last.qty) \/ last.qty[2] <= 0)
    \/ /\ last.op = "check_low_items"
       /\ (~IsInt(last.qty) \/ last.qty[2] < 0)

C6_InvalidArgumentNoEffect ==
    /\ (last.op \in {"add_item", "remove_item", "check_low_items"}
        /\ last.exc \in InvalidArgument) => stock_data = prev
    /\ InvalidCall => last.exc \in InvalidArgument /\ stock_data = prev

\* a remove of 0 of an item absent from a non-empty inventory
C6_Witness ==
    /\ last.op = "remove_item" /\ ValidItem(last.item)
    /\ last.qty = PyInt(0)
    /\ ~Has(prev, last.item[2]) /\ prev # <<>>
    /\ last.exc = "ValueError"

\* C7: a load of a file that exists and is not a JSON object, or holds a value
\* int() refuses, signals ParseError and leaves the mapping as it was, the
\* entries before the refused value included.
Refused(v) == int_(v).exc # "none"
BadFile(f) ==
    \/ f.kind \in {"malformed", "array"}
    \/ f.kind = "object" /\ \E i \in DOMAIN f.entries : Refused(f.entries[i][2])

C7_ParseErrorNoEffect ==
    (last.op = "load_data" /\ BadFile(files[last.path]))
    => last.exc \in ParseError /\ stock_data = prev

\* an accepted entry, then a refused one, loaded over a non-empty inventory
\* that does not hold the accepted entry
C7_Witness ==
    /\ last.op = "load_data" /\ last.exc = "ValueError"
    /\ files[last.path].kind = "object"
    /\ Len(files[last.path].entries) = 2
    /\ ~Refused(files[last.path].entries[1][2])
    /\ Refused(files[last.path].entries[2][2])
    /\ prev # <<>>
    /\ ~Has(prev, files[last.path].entries[1][1])

\* C8: a load of a file that the last successful save wrote, and nothing
\* wrote since, leaves the key -> quantity pairs of the saved inventory,
\* whatever the inventory held in between.
C8_SaveLoadRoundTrip ==
    (last.op = "load_data" /\ saved[last.path].valid)
    => /\ last.exc = "none"
       /\ AsMap(stock_data) = AsMap(saved[last.path].snap)

\* the inventory was changed between the save and the load, and held a key
\* that the saved one does not
C8_Witness ==
    /\ Ok("load_data") /\ saved[last.path].valid
    /\ Len(saved[last.path].snap) = 1
    /\ Keys(prev) \ Keys(saved[last.path].snap) # {}
    /\ \E k \in Keys(prev) \cap Keys(saved[last.path].snap) :
          Get(prev, k) # Get(saved[last.path].snap, k)

\* C9: a load of a path where no file exists raises nothing and leaves the
\* inventory empty, whatever it held.
C9_MissingFileEmpties ==
    (last.op = "load_data" /\ files[last.path].kind = "absent")
    => last.exc = "none" /\ stock_data = <<>>

C9_Witness ==
    /\ Ok("load_data") /\ files[last.path].kind = "absent"
    /\ Len(prev) = 2

\* C10: a successful add or remove changes at most the entry of the named
\* item; get_qty, check_low_items, print_data and save_data leave the mapping
\* as it was, and so does a remove or get_qty that signals NotFound.
SameEntry(k) ==
    /\ Has(prev, k) <=> Has(stock_data, k)
    /\ Has(prev, k) => Get(prev, k) = Get(stock_data, k)

C10_Frame ==
    /\ (Ok("add_item") \/ Ok("remove_item"))
          => \A k \in (Keys(prev) \cup Keys(stock_data)) \ {last.item[2]} :
                SameEntry(k)
    /\ last.op \in {"get_qty", "check_low_items", "print_data", "save_data"}
          => stock_data = prev
    /\ (last.op \in {"remove_item", "get_qty"} /\ last.exc \in NotFound)
          => stock_data = prev

\* an entry deleted by a remove while another item is stored
C10_Witness ==
    /\ Ok("remove_item") /\ Len(prev) = 2 /\ Len(stock_data) = 1
    /\ ~Has(stock_data, last.item[2])

====
